---- MODULE Spec2Model ----
(***************************************************************************)
(* pmctl: process matching, registry cache, port resolution and port       *)
(* conflict detection (src/pmctl.py).                                      *)
(*                                                                         *)
(* Strings are tuples of one-character strings, so that prefix, substring, *)
(* rstrip, lower and join are computed as Python computes them.  A value   *)
(* that Python turns into "" with `x or ""` (None or "") is the empty      *)
(* tuple.                                                                  *)
(***************************************************************************)
EXTENDS Integers, Sequences, FiniteSets, TLC

VARIABLES
    project,        \* the descriptor handed to find_processes
    procs,          \* psutil.process_iter(): process records, pid = index
    conns,          \* psutil.net_connections(kind="inet"): list of sockets
    netDenied,      \* net_connections raises AccessDenied / PermissionError
    found,          \* what find_processes returned: list of process handles (pids)
    called,         \* which operation has run on the inputs ("none" before)
    registry_cache,       \* _registry_cache
    registry_cache_time,  \* _registry_cache_time
    clock,          \* time.time(), in seconds
    service,        \* what GET /ports answers at the moment
    calls,          \* every fetch_registry call so far: start time, network use, outcome
    projects,       \* the stored descriptor set (projects.json): name -> descriptor
    resolved,       \* what resolve_project_ports returned
    conflicts,      \* what get_port_conflicts returned
    trace,          \* the resolutions get_port_conflicts made: name and ports
    change,         \* how clock and registry service changed while it ran
    gone,           \* pids of processes that have exited since the table was drawn
    rss,            \* memory_info().rss of each process, in hundredths of a MB
    info,           \* the running get_project_info call: position and result
    workers,        \* the threads of the web server: the workers of /api/projects
                    \* inside fetch_registry, or the start and restart requests
    stop            \* the running do_stop call: position and signals sent

vars == <<project, procs, conns, netDenied, found, called, registry_cache,
          registry_cache_time, clock, service, calls, projects, resolved, conflicts,
          trace, change, gone, rss, info, workers, stop>>

matchVars == <<project, procs, conns, netDenied, found>>
regVars == <<registry_cache, registry_cache_time, clock, service, calls>>
confVars == <<projects, resolved, conflicts, trace, change>>
osVars == <<gone, rss>>
callVars == <<info, workers, stop>>

-----------------------------------------------------------------------------
(* Bounds of the model *)

MaxProcs == 2       \* processes in one snapshot
MaxConns == 2       \* sockets in one snapshot
MaxPathLen == 3     \* length of the generated paths and working directories
MaxCalls == 3       \* fetch_registry calls in one run
MaxTicks == 6       \* seconds that pass in one run
MaxProjects == 3    \* descriptors in projects.json

-----------------------------------------------------------------------------
(* Python string and list operations *)

Range(s) == {s[i] : i \in 1..Len(s)}

\* x in list
InList(x, s) == \E i \in 1..Len(s) : s[i] = x

\* s.startswith(p)
StartsWith(s, p) == Len(p) <= Len(s) /\ SubSeq(s, 1, Len(p)) = p

\* sub in s   (substring)
Contains(sub, s) ==
    \E i \in 0..(Len(s) - Len(sub)) : SubSeq(s, i + 1, i + Len(sub)) = sub

\* s.rstrip(ch): every trailing ch is removed
RECURSIVE RStrip(_, _)
RStrip(s, ch) ==
    IF s = <<>> THEN s
    ELSE IF s[Len(s)] = ch THEN RStrip(SubSeq(s, 1, Len(s) - 1), ch)
    ELSE s

LowerChar(c) ==
    CASE c = "W" -> "w"
      [] c = "A" -> "a"
      [] c = "P" -> "p"
      [] OTHER -> c

\* s.lower()
Lower(s) == [i \in 1..Len(s) |-> LowerChar(s[i])]

\* sep.join(list)
RECURSIVE Join(_, _)
Join(sep, list) ==
    IF list = <<>> THEN <<>>
    ELSE IF Len(list) = 1 THEN list[1]
    ELSE list[1] \o sep \o Join(sep, Tail(list))

\* every sequence over S of length at most n
SeqsUpTo(S, n) == UNION {[1..k -> S] : k \in 0..n}

-----------------------------------------------------------------------------
(* find_processes *)

\* the tool's own invocation name, "pmctl"
SelfName == <<"p", "m", "c", "t", "l">>

\* found[proc.pid] = proc on a list modelling the dict's insertion order
DictSetAppendAlways(d, pid) == Append(d, pid)

DictSet(d, pid) == IF InList(pid, d) THEN d ELSE Append(d, pid)

\* psutil.Process(pid) succeeds iff the process exists
ProcessExists(ps, pid) == pid \in 1..Len(ps)

\* one iteration of the loop over net_connections (lines 107-112)
PortStep(d, conn, ports, ps) ==
    IF conn.status = "LISTEN" /\ InList(conn.port, ports) /\ conn.pid # 0
    THEN IF ProcessExists(ps, conn.pid) THEN DictSet(d, conn.pid) ELSE d
    ELSE d

RECURSIVE PortLoop(_, _, _, _)
PortLoop(d, cs, ports, ps) ==
    IF cs = <<>> THEN d
    ELSE PortLoop(PortStep(d, Head(cs), ports, ps), Tail(cs), ports, ps)

\* the port rule (lines 104-114)
PortRule(d, p, ps, cs, denied) ==
    IF p.ports # <<>> /\ ~denied THEN PortLoop(d, cs, p.ports, ps) ELSE d

\* cwd == path_norm or cwd.startswith(path_norm + "/")
CwdMatchPrefixOnly(cwd, path_norm) == StartsWith(cwd, path_norm)

CwdMatch(cwd, path_norm) ==
    cwd = path_norm \/ StartsWith(cwd, path_norm \o <<"/">>)

\* any(p.lower() in cmdline.lower() for p in patterns)
PatternMatch(cmdline, patterns) ==
    \E i \in 1..Len(patterns) : Contains(Lower(patterns[i]), Lower(cmdline))

\* the test of line 129 on one process
PathHit(proc, path_norm, patterns) ==
    LET cmdline == Join(<<" ">>, proc.cmdline)
    IN  /\ CwdMatch(proc.cwd, path_norm) \/ PatternMatch(cmdline, patterns)
        /\ ~Contains(SelfName, cmdline)

RECURSIVE PathLoop(_, _, _, _, _)
PathLoop(d, ps, i, path_norm, patterns) ==
    IF i > Len(ps) THEN d
    ELSE PathLoop(IF PathHit(ps[i], path_norm, patterns) THEN DictSet(d, i) ELSE d,
                  ps, i + 1, path_norm, patterns)

\* the path/pattern rule (lines 117-134)
PathRuleAlways(d, p, ps) ==
    PathLoop(d, ps, 1, RStrip(p.path, "/"), p.process_patterns)

PathRuleEither(d, p, ps) ==
    IF p.path # <<>> \/ p.process_patterns # <<>>
    THEN PathLoop(d, ps, 1, RStrip(p.path, "/"), p.process_patterns)
    ELSE d

PathRule(d, p, ps) ==
    IF p.path # <<>> /\ p.process_patterns # <<>>
    THEN PathLoop(d, ps, 1, RStrip(p.path, "/"), p.process_patterns)
    ELSE d

\* find_processes(project) on the snapshot (ps, cs, denied): list(found.values())
find_processes(p, ps, cs, denied) ==
    PathRule(PortRule(<<>>, p, ps, cs, denied), p, ps)

-----------------------------------------------------------------------------
(* fetch_registry *)

\* the module globals of lines 201-203
CACHE_TTL == 5

EmptyDict == <<>>

\* one service of the registry's listing: {"port": ..., "project": ...}
Entry(port, proj) == [port |-> port, project |-> proj]

\* the exception urlopen or json.loads raises for a failing request
ExceptionOf(kind) ==
    CASE kind = "refused" -> "URLError"
      [] kind = "timeout" -> "timeout"
      [] kind = "malformed" -> "JSONDecodeError"

\* except Exception: which exceptions line 218 catches
CaughtOnlyURLError(exc) == exc = "URLError"

Caught(exc) == exc \in {"URLError", "timeout", "JSONDecodeError"}

\* the test of line 210
CacheFreshOffByOne(cache, time, now) ==
    now - time < CACHE_TTL - 1 /\ cache # EmptyDict

CacheFresh(cache, time, now) == now - time < CACHE_TTL /\ cache # EmptyDict

Outcome(cache, time, ret, net, outcome, raised) ==
    [cache |-> cache, time |-> time, ret |-> ret, net |-> net,
     outcome |-> outcome, raised |-> raised]

\* line 211: return _registry_cache
OnHitTouch(cache, time, now) == Outcome(cache, now, cache, FALSE, "hit", FALSE)

OnHit(cache, time, now) == Outcome(cache, time, cache, FALSE, "hit", FALSE)

\* lines 215-217: the body replaces the cache, the call's start time is stored
OnSuccess(body, now) == Outcome(body, now, body, TRUE, "fresh", FALSE)

\* lines 218-219: return _registry_cache, stale or empty
OnFailureClear(cache, time) ==
    Outcome(EmptyDict, time, EmptyDict, TRUE, "failed", FALSE)

OnFailure(cache, time) == Outcome(cache, time, cache, TRUE, "failed", FALSE)

\* fetch_registry() at time now, with the registry service in state svc
fetch_registry(cache, time, now, svc) ==
    IF CacheFresh(cache, time, now) THEN OnHit(cache, time, now)
    ELSE IF svc.kind = "ok" THEN OnSuccess(svc.body, now)
    ELSE IF Caught(ExceptionOf(svc.kind)) THEN OnFailure(cache, time)
    ELSE Outcome(cache, time, EmptyDict, TRUE, "failed", TRUE)

-----------------------------------------------------------------------------
(* resolve_project_ports *)

\* list(set(xs)): the elements once each, in an order Python does not specify
RECURSIVE ListOfSet(_)
ListOfSet(S) ==
    IF S = {} THEN <<>>
    ELSE LET x == CHOOSE y \in S : TRUE IN <<x>> \o ListOfSet(S \ {x})

\* lines 229 and 232: project.get("ports", [])
FallbackSortedSet(p) == ListOfSet(Range(p.ports))

Fallback(p) == p.ports

\* lines 233-237: the reported port of every service name found in the registry
RECURSIVE ServicePortsDedup(_, _)
ServicePortsDedup(services, registry) ==
    IF services = <<>> THEN <<>>
    ELSE LET rest == ServicePortsDedup(Tail(services), registry)
             svc == Head(services)
         IN  IF svc \in DOMAIN registry /\ ~InList(registry[svc].port, rest)
             THEN <<registry[svc].port>> \o rest
             ELSE rest

RECURSIVE ServicePorts(_, _)
ServicePorts(services, registry) ==
    IF services = <<>> THEN <<>>
    ELSE LET svc == Head(services)
         IN  (IF svc \in DOMAIN registry THEN <<registry[svc].port>> ELSE <<>>)
             \o ServicePorts(Tail(services), registry)

\* info["port"] / registry[svc]["port"] succeeds: the entry is a mapping with
\* a "port" key (otherwise KeyError or TypeError)
HasPort(entry) == "port" \in DOMAIN entry

\* line 236 raises for one of the service names
ServicePortsRaises(services, registry) ==
    \E i \in 1..Len(services) :
        services[i] \in DOMAIN registry /\ ~HasPort(registry[services[i]])

\* resolve_project_ports(project): the ports, and the cache as the call leaves it
resolve_project_portsOrConfigured(p, cache, time, now, svc) ==
    IF p.services = <<>>
    THEN [ports |-> Fallback(p), cache |-> cache, time |-> time, raised |-> FALSE]
    ELSE LET r == fetch_registry(cache, time, now, svc)
         IN  IF r.raised
             THEN [ports |-> <<>>, cache |-> r.cache, time |-> r.time, raised |-> TRUE]
             ELSE IF r.ret = EmptyDict
             THEN [ports |-> Fallback(p), cache |-> r.cache, time |-> r.time,
                   raised |-> FALSE]
             ELSE IF ServicePortsRaises(p.services, r.ret)
             THEN [ports |-> <<>>, cache |-> r.cache, time |-> r.time, raised |-> TRUE]
             ELSE [ports |-> IF ServicePorts(p.services, r.ret) = <<>>
                             THEN Fallback(p)
                             ELSE ServicePorts(p.services, r.ret),
                   cache |-> r.cache, time |-> r.time, raised |-> FALSE]

resolve_project_ports(p, cache, time, now, svc) ==
    IF p.services = <<>>
    THEN [ports |-> Fallback(p), cache |-> cache, time |-> time, raised |-> FALSE]
    ELSE LET r == fetch_registry(cache, time, now, svc)
         IN  IF r.raised
             THEN [ports |-> <<>>, cache |-> r.cache, time |-> r.time, raised |-> TRUE]
             ELSE IF r.ret = EmptyDict
             THEN [ports |-> Fallback(p), cache |-> r.cache, time |-> r.time,
                   raised |-> FALSE]
             ELSE IF ServicePortsRaises(p.services, r.ret)
             THEN [ports |-> <<>>, cache |-> r.cache, time |-> r.time, raised |-> TRUE]
             ELSE [ports |-> ServicePorts(p.services, r.ret), cache |-> r.cache,
                   time |-> r.time, raised |-> FALSE]

-----------------------------------------------------------------------------
(* get_port_conflicts *)

\* port_map.setdefault(port, []).append(name), on a map port -> list of names
MapOverwrite(pm, port, name) ==
    IF port \in DOMAIN pm THEN [pm EXCEPT ![port] = <<name>>]
    ELSE pm @@ (port :> <<name>>)

MapAppend(pm, port, name) ==
    IF port \in DOMAIN pm THEN [pm EXCEPT ![port] = Append(@, name)]
    ELSE pm @@ (port :> <<name>>)

\* lines 250-251: for port in ports
RECURSIVE AppendAll(_, _, _)
AppendAll(pm, ports, name) ==
    IF ports = <<>> THEN pm
    ELSE AppendAll(MapAppend(pm, Head(ports), name), Tail(ports), name)

\* clock and registry service stay as they are while the handler runs
NoChange == [at |-> 0, svc |-> [kind |-> "refused", body |-> EmptyDict], dt |-> 0]

\* What one fetch_registry call of a running handler sees.  The clock and the
\* registry service may change while the handler runs: chg.at is the number of
\* the first fetch_registry call that sees the service in state chg.svc, chg.dt
\* seconds later (chg.at = 0: nothing changes during the call).
EnvAt(k, now, svc, chg) ==
    IF chg.at # 0 /\ k >= chg.at
    THEN [now |-> now + chg.dt, svc |-> chg.svc]
    ELSE [now |-> now, svc |-> svc]

\* resolve_project_ports(project) inside a handler that has made st.n calls of
\* fetch_registry so far
ResolveIn(p, st, now, svc, chg) ==
    LET e == EnvAt(st.n + 1, now, svc, chg)
    IN  resolve_project_ports(p, st.cache, st.time, e.now, e.svc)

\* fetch_registry calls one resolve_project_ports(p) makes (lines 228-230)
Fetches(p) == IF p.services = <<>> THEN 0 ELSE 1

\* lines 248-251: the local pass from item i on;
\* st = [pm, cache, time, n, trace, raised]: port_map, the two globals, the
\* number of fetch_registry calls made, every resolution made (name and ports),
\* and whether an exception has ended the call
RECURSIVE LocalPass(_, _, _, _, _, _)
LocalPass(items, i, st, now, svc, chg) ==
    IF i > Len(items) \/ st.raised THEN st
    ELSE LET r == ResolveIn(items[i].project, st, now, svc, chg)
         IN  LocalPass(items, i + 1,
                       [pm |-> AppendAll(st.pm, r.ports, items[i].name),
                        cache |-> r.cache, time |-> r.time,
                        n |-> st.n + Fetches(items[i].project),
                        trace |-> Append(st.trace,
                                         [name |-> items[i].name, ports |-> r.ports]),
                        raised |-> r.raised],
                       now, svc, chg)

\* lines 255-259: the owning projects of the registry's services, by port
svc_by_portRaises(registry) == \E s \in DOMAIN registry : ~HasPort(registry[s])

svc_by_port(registry) ==
    LET order == ListOfSet(DOMAIN registry)
        on(port) == SelectSeq(order, LAMBDA s : registry[s].port = port)
    IN  [port \in {registry[s].port : s \in DOMAIN registry} |->
            [k \in 1..Len(on(port)) |-> registry[on(port)[k]].project]]

\* lines 262-264: every local project that resolves the port is appended again
RECURSIVE CrossCheckPortMarksAll(_, _, _, _, _, _, _)
CrossCheckPortMarksAll(items, i, port, st, now, svc, chg) ==
    IF i > Len(items) \/ st.raised THEN st
    ELSE LET r == ResolveIn(items[i].project, st, now, svc, chg)
         IN  CrossCheckPortMarksAll(items, i + 1, port,
                            [pm |-> MapAppend(st.pm, port, items[i].name),
                             cache |-> r.cache, time |-> r.time,
                             n |-> st.n + Fetches(items[i].project),
                             trace |-> Append(st.trace,
                                              [name |-> items[i].name, ports |-> r.ports]),
                             raised |-> r.raised],
                            now, svc, chg)

RECURSIVE CrossCheckPort(_, _, _, _, _, _, _)
CrossCheckPort(items, i, port, st, now, svc, chg) ==
    IF i > Len(items) \/ st.raised THEN st
    ELSE LET r == ResolveIn(items[i].project, st, now, svc, chg)
         IN  CrossCheckPort(items, i + 1, port,
                            [pm |-> IF InList(port, r.ports)
                                    THEN MapAppend(st.pm, port, items[i].name)
                                    ELSE st.pm,
                             cache |-> r.cache, time |-> r.time,
                             n |-> st.n + Fetches(items[i].project),
                             trace |-> Append(st.trace,
                                              [name |-> items[i].name, ports |-> r.ports]),
                             raised |-> r.raised],
                            now, svc, chg)

\* lines 260-264: for port, projs in svc_by_port.items()
RECURSIVE CrossCheck(_, _, _, _, _, _, _)
CrossCheck(items, byPort, portList, st, now, svc, chg) ==
    IF portList = <<>> \/ st.raised THEN st
    ELSE CrossCheck(items, byPort, Tail(portList),
                    IF Cardinality(Range(byPort[Head(portList)])) > 1
                    THEN CrossCheckPort(items, 1, Head(portList), st, now, svc, chg)
                    ELSE st,
                    now, svc, chg)

\* line 266: the ports with more than one distinct name, each name once
ConflictsOfNoDedup(pm) ==
    [port \in {q \in DOMAIN pm : Len(pm[q]) > 1} |-> pm[port]]

ConflictsOf(pm) ==
    [port \in {q \in DOMAIN pm : Cardinality(Range(pm[q])) > 1} |->
        ListOfSet(Range(pm[port]))]

\* get_port_conflicts(projects): the conflict map, the cache as the call leaves
\* it, the number of fetch_registry calls, the resolutions made, and whether
\* the call ended in an exception (it then returns no map)
get_port_conflicts(items, cache, time, now, svc, chg) ==
    LET r == fetch_registry(cache, time, now, svc)
        registry == r.ret
        local == LocalPass(items, 1,
                           [pm |-> <<>>, cache |-> r.cache, time |-> r.time,
                            n |-> 1, trace |-> <<>>, raised |-> r.raised],
                           now, svc, chg)
        final == IF local.raised \/ registry = EmptyDict THEN local
                 ELSE IF svc_by_portRaises(registry)
                 THEN [local EXCEPT !.raised = TRUE]
                 ELSE LET byPort == svc_by_port(registry)
                      IN  CrossCheck(items, byPort, ListOfSet(DOMAIN byPort), local,
                                     now, svc, chg)
    IN  [conflicts |-> IF final.raised THEN <<>> ELSE ConflictsOf(final.pm),
         cache |-> final.cache, time |-> final.time, n |-> final.n,
         trace |-> final.trace, raised |-> final.raised]

-----------------------------------------------------------------------------
(* get_project_info *)

\* the socket table once the processes in gone have exited
LiveConns(cs, dead) == SelectSeq(cs, LAMBDA c : c.pid \notin dead)

\* find_processes(project) once the processes in dead have exited: they are in
\* neither net_connections() nor process_iter()
LiveFind(p, ps, cs, denied, dead) ==
    SelectSeq(find_processes(p, ps, LiveConns(cs, dead), denied),
              LAMBDA pid : pid \notin dead)

\* round(x, 1) on a figure in hundredths (no figure of the model ends in 5)
Round1(h) == ((h + 5) \div 10) * 10

\* lines 366-380: memory_info() raises NoSuchProcess for a process that has
\* exited; st = [mem, list]
RECURSIVE MemoryLoop(_, _, _, _)
MemoryLoop(pids, dead, mem, st) ==
    IF pids = <<>> THEN st
    ELSE LET pid == Head(pids)
         IN  MemoryLoop(Tail(pids), dead, mem,
                        IF pid \in dead THEN st
                        ELSE [mem |-> st.mem + mem[pid],
                              list |-> Append(st.list,
                                  [pid |-> pid, memory_mb |-> Round1(mem[pid])])])

\* lines 383-390: the listening ports among the resolved ports, one per socket
RECURSIVE OpenPortsLoop(_, _)
OpenPortsLoop(cs, ports) ==
    IF cs = <<>> THEN <<>>
    ELSE (IF Head(cs).status = "LISTEN" /\ InList(Head(cs).port, ports)
          THEN <<Head(cs).port>> ELSE <<>>) \o OpenPortsLoop(Tail(cs), ports)

OpenPortsRaw(ports, cs, denied) ==
    IF ports = <<>> \/ denied THEN <<>> ELSE OpenPortsLoop(cs, ports)

\* sorted(set(xs)) of line 403
RECURSIVE SortedDescending(_)
SortedDescending(S) ==
    IF S = {} THEN <<>>
    ELSE LET x == CHOOSE y \in S : \A z \in S : y >= z
         IN  <<x>> \o SortedDescending(S \ {x})

RECURSIVE Sorted(_)
Sorted(S) ==
    IF S = {} THEN <<>>
    ELSE LET x == CHOOSE y \in S : \A z \in S : y <= z
         IN  <<x>> \o Sorted(S \ {x})

\* line 395: {p: conflicts[p] for p in ports if p in conflicts}
ConflictingPorts(ports, cmap) ==
    [port \in {q \in Range(ports) : q \in DOMAIN cmap} |-> cmap[port]]

\* line 359: project = {**project, "ports": ports} builds a new dict and binds
\* the local name to it; given is the caller's dict after the statement
RebindInPlace(p, ports) ==
    [local |-> [p EXCEPT !.ports = ports], given |-> [p EXCEPT !.ports = ports]]

Rebind(p, ports) == [local |-> [p EXCEPT !.ports = ports], given |-> p]

\* line 402: "running" if running else "stopped", running = len(procs) > 0
StatusOfListed(matched, listed) == IF Len(listed) > 0 THEN "running" ELSE "stopped"

StatusOf(matched, listed) == IF Len(matched) > 0 THEN "running" ELSE "stopped"

\* get_project_info(name, project) run at once on one state of the machine:
\* the process and socket tables with the processes in dead exited, and the
\* registry service in state svc
get_project_info(p, items, ps, cs, denied, dead, mem, cache, time, now, svc) ==
    LET r == resolve_project_ports(p, cache, time, now, svc)
        matched == LiveFind(Rebind(p, r.ports).local, ps, cs, denied, dead)
        m == MemoryLoop(matched, dead, mem, [mem |-> 0, list |-> <<>>])
        open == OpenPortsRaw(r.ports, LiveConns(cs, dead), denied)
        c == get_port_conflicts(items, r.cache, r.time, now, svc, NoChange)
    IN  IF r.raised \/ c.raised
        THEN [raised |-> TRUE]
        ELSE [raised |-> FALSE,
              status |-> StatusOf(matched, m.list),
              ports |-> r.ports,
              open_ports |-> Sorted(Range(open)),
              memory_mb |-> Round1(m.mem),
              processes |-> m.list,
              pid_count |-> Len(matched),
              port_conflicts |-> ConflictingPorts(r.ports, c.conflicts)]

-----------------------------------------------------------------------------
(* Inputs of the matcher *)

PathA == <<"/", "a">>
PathB == <<"/", "b">>
HomeUApp == <<"/", "h", "o", "m", "e", "/", "u", "/", "a", "p", "p">>
HomeUAppBackup == HomeUApp \o <<"-", "b", "a", "c", "k", "u", "p">>

Descriptor(path, ports, patterns, services) ==
    [path |-> path, ports |-> ports, process_patterns |-> patterns,
     services |-> services]

NoDescriptor == Descriptor(<<>>, <<>>, <<>>, <<>>)

Proc(cwd, cmdline) == [cwd |-> cwd, cmdline |-> cmdline]

Conn(status, port, pid) == [status |-> status, port |-> port, pid |-> pid]

\* descriptors of the matcher runs: with and without path, ports, patterns
MatchDescriptors ==
    {Descriptor(path, ports, patterns, <<>>) :
        path \in {<<>>, PathA},
        ports \in {<<>>, <<3000>>, <<3000, 8080>>},
        patterns \in {<<>>, << <<"w">> >>}}

\* a process inside /a, one whose command line holds the pattern, one
\* unrelated, and the tool's own dashboard ("pmctl web")
ProcKinds ==
    {Proc(PathA, << <<"x">> >>), Proc(PathB, << <<"p", "y">>, <<"W">> >>),
     Proc(PathB, << <<"x">> >>), Proc(PathB, <<SelfName, <<"w", "e", "b">> >>)}

\* pid 0 stands for conn.pid = None; a pid beyond the process table has vanished
ConnKinds ==
    {Conn("LISTEN", 3000, 1), Conn("LISTEN", 3000, 2), Conn("LISTEN", 8080, 1),
     Conn("ESTABLISHED", 3000, 1), Conn("LISTEN", 3000, 0)}

PathAlphabet == {"/", "a", "-"}

\* the worker of the end-to-end scenario
SrvWorker == <<"/", "s", "r", "v", "/", "w", "o", "r", "k", "e", "r">>
SrvWorkerOld == SrvWorker \o <<"-", "o", "l", "d">>
WorkerPy == <<"w", "o", "r", "k", "e", "r", ".", "p", "y">>
WorkerProject == Descriptor(SrvWorker, <<>>, <<WorkerPy>>, <<>>)

\* paths and working directories: every short string, and the documented pairs
PathStrings ==
    SeqsUpTo(PathAlphabet, MaxPathLen)
    \cup {HomeUApp, HomeUAppBackup, SrvWorker, SrvWorkerOld}

PathPatterns == {<<>>, << <<"w">> >>, <<WorkerPy>>}

\* command lines (argument lists) of the path runs
PathCmdlines ==
    {<<>>, << <<"x">> >>, << <<"p", "y">>, <<"W">> >>, <<SelfName, <<"x">> >>,
     << <<"p", "y">>, WorkerPy >>}

-----------------------------------------------------------------------------
(* State before any operation has run *)

MatchIdle ==
    /\ project = NoDescriptor
    /\ procs = <<>>
    /\ conns = <<>>
    /\ netDenied = FALSE
    /\ found = <<>>

RegistryIdle ==
    /\ registry_cache = EmptyDict
    /\ registry_cache_time = 0
    /\ clock = CACHE_TTL
    /\ service = [kind |-> "refused", body |-> EmptyDict]
    /\ calls = <<>>

ConfIdle ==
    /\ projects = <<>>
    /\ resolved = <<>>
    /\ conflicts = <<>>
    /\ trace = <<>>
    /\ change = NoChange

\* no process has exited, no memory figures are needed
OsIdle ==
    /\ gone = {}
    /\ rss = <<>>

\* no get_project_info call, no /api/projects worker and no do_stop call runs
CallIdle ==
    /\ info = <<>>
    /\ workers = <<>>
    /\ stop = <<>>

-----------------------------------------------------------------------------
(* The matcher on whole snapshots *)

InitMatch ==
    /\ project \in MatchDescriptors
    /\ procs \in SeqsUpTo(ProcKinds, MaxProcs)
    /\ conns \in SeqsUpTo(ConnKinds, MaxConns)
    /\ netDenied \in BOOLEAN
    /\ found = <<>>
    /\ called = "none"
    /\ RegistryIdle
    /\ ConfIdle
    /\ OsIdle
    /\ CallIdle

FindProcesses ==
    /\ called = "none"
    /\ found' = find_processes(project, procs, conns, netDenied)
    /\ called' = "find_processes"
    /\ UNCHANGED <<project, procs, conns, netDenied, regVars, confVars, osVars,
                   callVars>>

NextMatch == FindProcesses

SpecMatch == InitMatch /\ [][NextMatch]_vars

(* The matcher on one process, over many paths and working directories *)

InitPath ==
    /\ \E path \in PathStrings, patterns \in PathPatterns :
          project = Descriptor(path, <<>>, patterns, <<>>)
    /\ \E cwd \in PathStrings, cmdline \in PathCmdlines :
          procs = <<Proc(cwd, cmdline)>>
    /\ conns = <<>>
    /\ netDenied = FALSE
    /\ found = <<>>
    /\ called = "none"
    /\ RegistryIdle
    /\ ConfIdle
    /\ OsIdle
    /\ CallIdle

NextPath == FindProcesses

SpecPath == InitPath /\ [][NextPath]_vars

-----------------------------------------------------------------------------
(* C1: with an empty port list and an empty pattern list, whatever the path
   and whatever the snapshot, find_processes returns nothing. *)
C1_EmptyDescriptorMatchesNothing ==
    (called = "find_processes" /\ project.ports = <<>>
        /\ project.process_patterns = <<>>)
    => found = <<>>

\* a path is set, a process lives inside it and a process listens: still nothing
C1_Witness ==
    /\ called = "find_processes"
    /\ project.ports = <<>> /\ project.process_patterns = <<>>
    /\ project.path = PathA
    /\ \E i \in 1..Len(procs) : procs[i].cwd = PathA
    /\ \E i \in 1..Len(conns) : conns[i].status = "LISTEN" /\ conns[i].pid = 1
    /\ ~netDenied
    /\ found = <<>>

(* C2: the result of find_processes holds each PID at most once, also when
   the port rule (through several listening sockets) and the path/pattern
   rule select the same process. *)
C2_NoDuplicatePids ==
    called = "find_processes" =>
        \A i, j \in 1..Len(found) : found[i] = found[j] => i = j

\* pid 1 listens on two project ports and sits in the project path
C2_Witness ==
    /\ called = "find_processes"
    /\ ~netDenied
    /\ Len(conns) = 2
    /\ \A i \in 1..2 : /\ conns[i].status = "LISTEN" /\ conns[i].pid = 1
                       /\ InList(conns[i].port, project.ports)
    /\ Len(procs) >= 1 /\ procs[1].cwd = PathA
    /\ project.path = PathA /\ project.process_patterns # <<>>
    /\ found = <<1>>

(* C3 as stated: for a descriptor with a path and patterns and a process whose
   command line holds no configured pattern, the process is matched if and
   only if its working directory is the normalized path or lies below it. *)
C3_Original ==
    (called = "find_processes" /\ project.path # <<>>
        /\ project.process_patterns # <<>>
        /\ ~PatternMatch(Join(<<" ">>, procs[1].cmdline), project.process_patterns))
    => LET norm == RStrip(project.path, "/")
           cwd == procs[1].cwd
           below == /\ Len(cwd) > Len(norm)
                    /\ \A k \in 1..Len(norm) : cwd[k] = norm[k]
                    /\ cwd[Len(norm) + 1] = "/"
       IN  InList(1, found) <=> (cwd = norm \/ below)

(* C3, amended: the same equivalence for a process whose command line holds no
   configured pattern and does not hold the tool's own name "pmctl"; in
   particular /home/u/app matches path /home/u/app and /home/u/app-backup
   does not. *)
C3_PathContainment ==
    (called = "find_processes" /\ project.path # <<>>
        /\ project.process_patterns # <<>>
        /\ ~PatternMatch(Join(<<" ">>, procs[1].cmdline), project.process_patterns)
        /\ ~Contains(SelfName, Join(<<" ">>, procs[1].cmdline)))
    => LET norm == RStrip(project.path, "/")
           cwd == procs[1].cwd
           below == /\ Len(cwd) > Len(norm)
                    /\ \A k \in 1..Len(norm) : cwd[k] = norm[k]
                    /\ cwd[Len(norm) + 1] = "/"
       IN  /\ InList(1, found) <=> (cwd = norm \/ below)
           /\ (project.path = HomeUApp /\ cwd = HomeUApp) => found = <<1>>
           /\ (project.path = HomeUApp /\ cwd = HomeUAppBackup) => found = <<>>

\* the sibling directory /home/u/app-backup of path /home/u/app is not matched
C3_Witness ==
    /\ called = "find_processes"
    /\ project.path = HomeUApp
    /\ project.process_patterns = << <<"w">> >>
    /\ procs[1].cwd = HomeUAppBackup
    /\ procs[1].cmdline = << <<"x">> >>
    /\ found = <<>>

-----------------------------------------------------------------------------
(* The registry cache over time *)

BodyWeb == "web" :> Entry(3000, "A")
BodyBoth == ("web" :> Entry(3000, "A")) @@ ("api" :> Entry(3000, "B"))

Down(kind) == [kind |-> kind, body |-> EmptyDict]
Up(body) == [kind |-> "ok", body |-> body]

\* what the registry service can answer: three failures, an empty and two full listings
ServiceStates ==
    {Down("refused"), Down("timeout"), Down("malformed"),
     Up(EmptyDict), Up(BodyWeb), Up(BodyBoth)}

InitReg ==
    /\ RegistryIdle
    /\ MatchIdle
    /\ ConfIdle
    /\ OsIdle
    /\ CallIdle
    /\ called = "none"

\* a caller runs fetch_registry(); the call is recorded in calls
FetchRegistry ==
    /\ Len(calls) < MaxCalls
    /\ LET r == fetch_registry(registry_cache, registry_cache_time, clock, service)
       IN  /\ registry_cache' = r.cache
           /\ registry_cache_time' = r.time
           /\ calls' = Append(calls,
                  [t |-> clock, net |-> r.net, outcome |-> r.outcome,
                   ret |-> r.ret, raised |-> r.raised,
                   cacheBefore |-> registry_cache, timeBefore |-> registry_cache_time,
                   cacheAfter |-> r.cache, timeAfter |-> r.time])
    /\ called' = "fetch_registry"
    /\ UNCHANGED <<clock, service, matchVars, confVars, osVars, callVars>>

\* a second passes
Tick ==
    /\ clock < CACHE_TTL + MaxTicks
    /\ clock' = clock + 1
    /\ UNCHANGED <<registry_cache, registry_cache_time, service, calls, called,
                   matchVars, confVars, osVars, callVars>>

\* the registry service goes down, comes up or changes its listing
ServiceChange ==
    /\ service' \in ServiceStates \ {service}
    /\ UNCHANGED <<registry_cache, registry_cache_time, clock, calls, called,
                   matchVars, confVars, osVars, callVars>>

NextReg == FetchRegistry \/ Tick \/ ServiceChange

SpecReg == InitReg /\ [][NextReg]_vars

-----------------------------------------------------------------------------
(* C4 as stated: two fetch_registry calls within one TTL window issue at most
   one network call in total, whatever the first call's outcome. *)
C4_Original ==
    \A i, j \in 1..Len(calls) :
        (i < j /\ calls[j].t - calls[i].t < CACHE_TTL)
        => ~(calls[i].net /\ calls[j].net)

(* C4, amended: two fetch_registry calls within one TTL window issue at most
   one network call in total when the first call was served from the cache or
   fetched a non-empty snapshot. *)
C4_OneNetworkCallPerWindow ==
    \A i, j \in 1..Len(calls) :
        (/\ i < j
         /\ calls[j].t - calls[i].t < CACHE_TTL
         /\ \/ calls[i].outcome = "hit"
            \/ calls[i].outcome = "fresh" /\ calls[i].ret # EmptyDict)
        => ~(calls[i].net /\ calls[j].net)

\* a fresh non-empty fetch, then a call later in the same window, served from the cache
C4_Witness ==
    /\ Len(calls) >= 2
    /\ calls[1].outcome = "fresh" /\ calls[1].ret # EmptyDict /\ calls[1].net
    /\ calls[2].t > calls[1].t /\ calls[2].t - calls[1].t < CACHE_TTL
    /\ ~calls[2].net

\* the cache was left empty before call i: by no fetch at all, or by a fetch
\* that was answered with an empty listing
EmptyByHistory(i) ==
    LET fresh == {k \in 1..(i - 1) : calls[k].outcome = "fresh"}
    IN  \/ fresh = {}
        \/ \E k \in fresh : /\ \A m \in fresh : m <= k
                            /\ calls[k].ret = EmptyDict

(* C5 as stated: fetch_registry never raises; when the live fetch fails it
   returns the previously cached snapshot, which is empty only if nothing was
   ever cached, and leaves the cache and its timestamp unchanged. *)
C5_Original ==
    \A i \in 1..Len(calls) :
        /\ ~calls[i].raised
        /\ calls[i].outcome = "failed" =>
              /\ calls[i].ret = calls[i].cacheBefore
              /\ calls[i].cacheAfter = calls[i].cacheBefore
              /\ calls[i].timeAfter = calls[i].timeBefore
              /\ calls[i].ret = EmptyDict =>
                    \A k \in 1..(i - 1) : calls[k].cacheAfter = EmptyDict

(* C5, amended: fetch_registry never raises; when the live fetch fails
   (timeout, connection refused, malformed body), also after TTL expiry, it
   returns the cache as the call found it, which is empty only if nothing was
   ever fetched or the last successful fetch was answered with an empty
   listing, and leaves the cache and its timestamp unchanged. *)
C5_FailureReturnsCache ==
    \A i \in 1..Len(calls) :
        /\ ~calls[i].raised
        /\ calls[i].outcome = "failed" =>
              /\ calls[i].ret = calls[i].cacheBefore
              /\ calls[i].cacheAfter = calls[i].cacheBefore
              /\ calls[i].timeAfter = calls[i].timeBefore
              /\ calls[i].ret = EmptyDict => EmptyByHistory(i)

\* a snapshot was cached, the TTL expired, the body is malformed: the old snapshot is returned
C5_Witness ==
    /\ Len(calls) >= 2
    /\ service = Down("malformed")
    /\ calls[Len(calls)].outcome = "failed"
    /\ calls[Len(calls)].t - calls[Len(calls)].timeBefore >= CACHE_TTL
    /\ calls[Len(calls)].cacheBefore = BodyBoth
    /\ calls[Len(calls)].ret = BodyBoth
    /\ registry_cache = BodyBoth

(* C6: when less than TTL has passed since the last successful fetch and that
   fetch cached a snapshot (the cache is not empty), fetch_registry returns
   the cache, issues no network call and changes neither cache nor timestamp. *)
C6_FreshCacheIsServed ==
    \A i \in 1..Len(calls) :
        (calls[i].t - calls[i].timeBefore < CACHE_TTL
            /\ calls[i].cacheBefore # EmptyDict)
        => /\ ~calls[i].net
           /\ calls[i].ret = calls[i].cacheBefore
           /\ calls[i].cacheAfter = calls[i].cacheBefore
           /\ calls[i].timeAfter = calls[i].timeBefore

\* four seconds after a successful fetch, with the service answering something else
C6_Witness ==
    /\ Len(calls) >= 2
    /\ calls[1].outcome = "fresh" /\ calls[1].ret = BodyWeb
    /\ calls[2].t = calls[1].t + CACHE_TTL - 1
    /\ calls[2].outcome = "hit" /\ calls[2].ret = BodyWeb
    /\ service = Up(BodyBoth)
    /\ registry_cache = BodyWeb /\ registry_cache_time = calls[1].t

-----------------------------------------------------------------------------
(* Port resolution and conflict detection on whole descriptor sets *)

BodyTwo == ("web" :> Entry(8080, "A")) @@ ("api" :> Entry(3000, "A"))

ConfBodies == {BodyWeb, BodyBoth, BodyTwo}

\* the registry service: down, up with nothing registered, up with a listing
ConfServiceStates == {Down("refused"), Up(EmptyDict)} \cup {Up(b) : b \in ConfBodies}

\* static ports only; ports listed twice; one service; two services in the
\* reverse of the registry's order; a service the registry never lists
ConfDescriptors ==
    {Descriptor(<<>>, <<3000>>, <<>>, <<>>),
     Descriptor(<<>>, <<3000, 8080, 3000>>, <<>>, <<>>),
     Descriptor(<<>>, <<8080>>, <<>>, <<"web">>),
     Descriptor(<<>>, <<>>, <<>>, <<"api", "web">>),
     Descriptor(<<>>, <<3000>>, <<>>, <<"db">>)}

ProjectNames == <<"A", "B", "C", "D", "E">>

\* projects.json: the descriptors by name, in file order
ProjectSets ==
    UNION {{[i \in 1..n |-> [name |-> ProjectNames[i], project |-> ds[i]]] :
               ds \in [1..n -> ConfDescriptors]} : n \in 0..MaxProjects}

AllPorts == {3000, 8080}

InitConf ==
    /\ MatchIdle
    /\ OsIdle
    /\ CallIdle
    /\ called = "none"
    /\ calls = <<>>
    /\ clock = 2 * CACHE_TTL
    /\ service \in ConfServiceStates
    /\ \/ registry_cache = EmptyDict /\ registry_cache_time = 0
       \/ registry_cache \in ConfBodies
            /\ registry_cache_time \in {clock - CACHE_TTL, clock}
    /\ projects \in ProjectSets
    /\ resolved = <<>>
    /\ conflicts = <<>>
    /\ trace = <<>>
    /\ change = NoChange

\* a caller runs resolve_project_ports on the i-th stored descriptor
ResolveProjectPorts ==
    /\ called = "none"
    /\ \E i \in 1..Len(projects) :
          LET r == resolve_project_ports(projects[i].project, registry_cache,
                                         registry_cache_time, clock, service)
          IN  /\ resolved' = [of |-> i, ports |-> r.ports, raised |-> r.raised]
              /\ registry_cache' = r.cache
              /\ registry_cache_time' = r.time
    /\ called' = "resolve_project_ports"
    /\ UNCHANGED <<clock, service, calls, projects, conflicts, trace, change,
                   matchVars, osVars, callVars>>

\* the ways clock and service can change while a handler makes n fetch_registry
\* calls: not at all, or once, before the second or a later call
Changes(n) ==
    {NoChange} \cup
    {c \in [at : 2..n, svc : ConfServiceStates, dt : {0, CACHE_TTL}] :
        c.svc # service \/ c.dt # 0}

\* a caller runs get_port_conflicts on the stored descriptor set
GetPortConflicts ==
    /\ called = "none"
    /\ \E r0 \in {get_port_conflicts(projects, registry_cache, registry_cache_time,
                                      clock, service, NoChange)} :
       \E chg \in Changes(r0.n) :
       \E r \in {IF chg = NoChange THEN r0
                 ELSE get_port_conflicts(projects, registry_cache,
                                         registry_cache_time, clock, service, chg)} :
       \E e \in {EnvAt(r.n, clock, service, chg)} :
          /\ conflicts' = r.conflicts
          /\ trace' = r.trace
          /\ change' = chg
          /\ registry_cache' = r.cache
          /\ registry_cache_time' = r.time
          /\ clock' = e.now
          /\ service' = e.svc
    /\ called' = "get_port_conflicts"
    /\ UNCHANGED <<calls, projects, resolved, matchVars, osVars, callVars>>

NextConf == ResolveProjectPorts \/ GetPortConflicts

SpecConf == InitConf /\ [][NextConf]_vars

-----------------------------------------------------------------------------
(* C7: when the descriptor has no service names, or the registry snapshot
   obtained is empty, resolve_project_ports returns the configured port list
   verbatim (same elements, same order, duplicates kept) and does not raise. *)
C7_FallbackVerbatim ==
    called = "resolve_project_ports" =>
        LET p == projects[resolved.of].project
        IN  /\ ~resolved.raised
            /\ (p.services = <<>> \/ registry_cache = EmptyDict)
                  => resolved.ports = p.ports

\* the registry is down, nothing is cached, the descriptor names a service
C7_Witness ==
    /\ called = "resolve_project_ports"
    /\ service.kind # "ok"
    /\ registry_cache = EmptyDict
    /\ projects[resolved.of].project.services = <<"web">>
    /\ resolved.ports = <<8080>>

(* C8: with service names and a non-empty registry snapshot,
   resolve_project_ports returns the registry-reported ports of the service
   names present in the snapshot, in the order of the service-name list, not
   deduplicated. *)
C8_RegistryPortsInServiceOrder ==
    (called = "resolve_project_ports"
        /\ projects[resolved.of].project.services # <<>>
        /\ registry_cache # EmptyDict)
    => LET sv == projects[resolved.of].project.services
           present == {i \in 1..Len(sv) : sv[i] \in DOMAIN registry_cache}
           rank(i) == Cardinality({j \in present : j <= i})
       IN  /\ Len(resolved.ports) = Cardinality(present)
           /\ \A i \in present : resolved.ports[rank(i)] = registry_cache[sv[i]].port

\* api and web are both registered on port 3000: the port comes twice
C8_Witness ==
    /\ called = "resolve_project_ports"
    /\ projects[resolved.of].project.services = <<"api", "web">>
    /\ registry_cache = BodyBoth
    /\ resolved.ports = <<3000, 3000>>

\* the ports the i-th stored project resolves to
ResolvedPortsOf(i) ==
    resolve_project_ports(projects[i].project, registry_cache,
                          registry_cache_time, clock, service).ports

\* the names of the stored projects whose resolved ports contain the port
Owners(port) ==
    {projects[i].name : i \in {k \in 1..Len(projects) : InList(port, ResolvedPortsOf(k))}}

\* the names of the projects whose resolution in the local pass (the first
\* resolution of each project) holds the port
LocalResolvers(port) ==
    {trace[k].name :
        k \in {m \in 1..Len(projects) : m <= Len(trace) /\ InList(port, trace[m].ports)}}

(* C9: get_port_conflicts maps a port to exactly the set of distinct project
   names whose resolved ports contain it when that set has at least two
   members, and leaves the port out when fewer projects resolve it.  A
   project's resolved ports are one list when the clock and the registry's
   answer stay the same during the call; the equality is stated for those
   calls.  In every call, a port that two projects resolve in the local pass
   is reported with at least those projects. *)
C9_ConflictSymmetry ==
    called = "get_port_conflicts" =>
        /\ DOMAIN conflicts \subseteq AllPorts
        /\ \A port \in AllPorts :
              /\ change = NoChange =>
                    IF Cardinality(Owners(port)) >= 2
                    THEN /\ port \in DOMAIN conflicts
                         /\ Range(conflicts[port]) = Owners(port)
                    ELSE port \notin DOMAIN conflicts
              /\ Cardinality(LocalResolvers(port)) >= 2 =>
                    /\ port \in DOMAIN conflicts
                    /\ LocalResolvers(port) \subseteq Range(conflicts[port])

\* 3000 is resolved by A and B, 8080 by C alone: {3000: {A, B}}
C9_Witness ==
    /\ called = "get_port_conflicts"
    /\ change = NoChange
    /\ Len(projects) = 3
    /\ Owners(3000) = {"A", "B"}
    /\ Owners(8080) = {"C"}
    /\ DOMAIN conflicts = {3000}
    /\ Range(conflicts[3000]) = {"A", "B"}

(* C10: every entry of the map get_port_conflicts returns names at least two
   distinct projects, none twice; a project that resolves one port more than
   once is not reported as conflicting with itself. *)
C10_EntriesNameTwoDistinct ==
    called = "get_port_conflicts" =>
        \A port \in DOMAIN conflicts :
            /\ Cardinality(Range(conflicts[port])) >= 2
            /\ \A i, j \in 1..Len(conflicts[port]) :
                  conflicts[port][i] = conflicts[port][j] => i = j

\* A alone resolves 3000, twice, and the registry lists 3000 for two projects: no entry
C10_Witness ==
    /\ called = "get_port_conflicts"
    /\ Len(projects) >= 1
    /\ projects[1].project.ports = <<3000, 8080, 3000>>
    /\ Owners(3000) = {"A"}
    /\ registry_cache = BodyBoth
    /\ change = NoChange
    /\ 3000 \notin DOMAIN conflicts

\* the owning projects the cached registry snapshot reports for the port
RegistryOwners(port) ==
    {registry_cache[s].project :
        s \in {t \in DOMAIN registry_cache : registry_cache[t].port = port}}

(* C11: for any port that the registry snapshot assigns to services of two or
   more distinct owning projects, get_port_conflicts marks every stored
   project whose resolved ports include the port as conflicting on it, also
   when no other stored project resolves the port.  (Stated for calls during
   which clock and registry do not change.) *)
C11_CrossCheckMarks ==
    (called = "get_port_conflicts" /\ change = NoChange) =>
        \A port \in AllPorts :
            Cardinality(RegistryOwners(port)) >= 2 =>
                \A name \in Owners(port) :
                    /\ port \in DOMAIN conflicts
                    /\ InList(name, conflicts[port])

-----------------------------------------------------------------------------
(* One status read, step by step, on a machine that changes meanwhile *)

\* a listing whose entry has no "port" key
BodyNoPort == "web" :> [project |-> "A"]

InfoServiceStates == {Down("refused"), Up(EmptyDict), Up(BodyWeb), Up(BodyNoPort)}

\* the queried project: the api of the end-to-end scenario; path, patterns and
\* two ports; a registered service; a service the registry does not list
ApiProject == Descriptor(<<>>, <<8080>>, <<>>, <<>>)

InfoDescriptors ==
    {ApiProject,
     Descriptor(PathA, <<8080, 3000>>, << <<"w">> >>, <<>>),
     Descriptor(<<>>, <<8080>>, <<>>, <<"web">>),
     Descriptor(PathA, <<8080>>, << <<"w">> >>, <<"db">>)}

\* the other project of projects.json
OtherDescriptors == {Descriptor(<<>>, <<3000, 8080>>, <<>>, <<>>)}

InfoProjectSets ==
    {<<[name |-> "A", project |-> d]>> : d \in InfoDescriptors}
    \cup {<<[name |-> "A", project |-> d], [name |-> "B", project |-> o]>> :
             d \in InfoDescriptors, o \in OtherDescriptors}

InfoProcTables ==
    {<<>>, <<Proc(PathA, << <<"x">> >>)>>,
     <<Proc(PathB, << <<"x">> >>), Proc(PathA, << <<"p", "y">>, <<"W">> >>)>>}

InfoConnTables ==
    {<<Conn("LISTEN", 8080, 1)>>,
     <<Conn("LISTEN", 8080, 1), Conn("LISTEN", 3000, 2)>>,
     <<Conn("LISTEN", 8080, 2), Conn("LISTEN", 8080, 1)>>,
     <<Conn("LISTEN", 3000, 0), Conn("LISTEN", 8080, 3)>>}

\* resident memory of a process, in hundredths of a MB
MemFigures == {4, 12}

MaxServiceChanges == 1   \* changes of the registry's answer during one status read
MaxExits == 1            \* processes that exit during one status read

\* the state of the machine a step of the call reads
EnvNow == [gone |-> gone, service |-> service]

InfoBlank ==
    [pc |-> "none", t0 |-> 0, cache0 |-> EmptyDict, time0 |-> 0,
     registry |-> EmptyDict, ports |-> <<>>,
     matched |-> <<>>, didMatch |-> FALSE, todo |-> <<>>, mem |-> 0,
     listed |-> <<>>,
     sockets1 |-> <<>>, sockets2 |-> <<>>, open |-> <<>>, result |-> <<>>,
     seen |-> {}, changes |-> 0]

InitInfo ==
    /\ found = <<>>
    /\ procs \in InfoProcTables
    /\ \/ conns \in InfoConnTables /\ netDenied = FALSE
       \/ conns = <<Conn("LISTEN", 8080, 1)>> /\ netDenied = TRUE
    /\ gone = {}
    /\ \E m \in MemFigures : rss = [i \in 1..Len(procs) |-> IF i = 1 THEN 12 ELSE m]
    /\ called = "none"
    /\ calls = <<>>
    /\ clock = 2 * CACHE_TTL
    /\ service \in InfoServiceStates
    /\ \/ registry_cache = EmptyDict /\ registry_cache_time = 0
       \/ registry_cache = BodyWeb /\ registry_cache_time = clock
    /\ projects \in InfoProjectSets
    /\ project = projects[1].project
    /\ resolved = <<>>
    /\ conflicts = <<>>
    /\ trace = <<>>
    /\ change = NoChange
    /\ info = InfoBlank
    /\ workers = <<>>
    /\ stop = <<>>

\* the descriptor get_project_info is called with (the variable project): the
\* first of projects.json, as the caller loaded it
Queried == projects[1].project

InfoRunning ==
    info.pc \in {"request", "match", "memory", "describe", "open_ports", "conflicts"}

\* lines 357, 227-230 and 208-213: resolve_project_ports up to the point where
\* fetch_registry opens its request; without service names or with a fresh
\* cache there is no request and the ports are resolved at once
InfoBegin ==
    /\ called = "none"
    /\ info.pc = "none"
    /\ called' = "get_project_info"
    /\ IF project.services = <<>>
          \/ CacheFresh(registry_cache, registry_cache_time, clock)
       THEN LET r == resolve_project_ports(project, registry_cache,
                                           registry_cache_time, clock, service)
            IN  info' = [info EXCEPT !.pc = "match", !.t0 = clock,
                                     !.cache0 = registry_cache,
                                     !.time0 = registry_cache_time,
                                     !.registry = IF project.services = <<>>
                                                  THEN EmptyDict
                                                  ELSE registry_cache,
                                     !.ports = r.ports, !.seen = {EnvNow}]
       ELSE info' = [info EXCEPT !.pc = "request", !.t0 = clock,
                                 !.cache0 = registry_cache,
                                 !.time0 = registry_cache_time, !.seen = {EnvNow}]
    /\ UNCHANGED <<matchVars, regVars, confVars, osVars, workers, stop>>

\* lines 214-219 and 231-237: the request is answered, refused or times out,
\* and resolve_project_ports returns or raises
InfoRegistryAnswers ==
    /\ info.pc = "request"
    /\ LET r == resolve_project_ports(project, registry_cache, registry_cache_time,
                                      info.t0, service)
       IN  /\ registry_cache' = r.cache
           /\ registry_cache_time' = r.time
           /\ info' = [info EXCEPT !.pc = IF r.raised THEN "raised" ELSE "match",
                                   !.registry = r.cache,
                                   !.ports = r.ports, !.seen = @ \cup {EnvNow}]
    /\ UNCHANGED <<matchVars, clock, service, calls, called, confVars, osVars,
                   workers, stop>>

\* the loop of line 368 goes on with the processes left, or is over
AfterProcess(todo) == IF todo = <<>> THEN "open_ports" ELSE "memory"

\* lines 359-363: the matcher runs on the descriptor with the resolved ports
InfoMatch ==
    /\ info.pc = "match"
    /\ LET w == Rebind(project, info.ports)
           m == LiveFind(w.local, procs, conns, netDenied, gone)
       IN  /\ project' = w.given
           /\ info' = [info EXCEPT
                   !.pc = AfterProcess(m),
                   !.matched = m,
                   !.todo = m,
                   !.didMatch = TRUE,
                   !.sockets1 = IF netDenied THEN <<>> ELSE LiveConns(conns, gone),
                   !.seen = @ \cup {EnvNow}]
    /\ UNCHANGED <<procs, conns, netDenied, found, regVars, called, confVars,
                   osVars, workers, stop>>

\* lines 368-370: memory_info() of the next matched process; NoSuchProcess
\* (line 378) ends the iteration with nothing added
InfoMemory ==
    /\ info.pc = "memory"
    /\ LET pid == Head(info.todo)
       IN  IF pid \in gone
           THEN info' = [info EXCEPT !.pc = AfterProcess(Tail(info.todo)),
                                     !.todo = Tail(@), !.seen = @ \cup {EnvNow}]
           ELSE info' = [info EXCEPT !.pc = "describe", !.mem = @ + rss[pid],
                                     !.seen = @ \cup {EnvNow}]
    /\ UNCHANGED <<matchVars, regVars, called, confVars, osVars, workers, stop>>

\* lines 371-377: name() and cmdline() of the same process and the append to
\* proc_list; NoSuchProcess (line 378) ends the iteration without the append
InfoDescribe ==
    /\ info.pc = "describe"
    /\ LET pid == Head(info.todo)
       IN  info' = [info EXCEPT
                       !.pc = AfterProcess(Tail(info.todo)),
                       !.todo = Tail(@),
                       !.listed = IF pid \in gone THEN @
                                  ELSE Append(@, [pid |-> pid,
                                                  memory_mb |-> Round1(rss[pid])]),
                       !.seen = @ \cup {EnvNow}]
    /\ UNCHANGED <<matchVars, regVars, called, confVars, osVars, workers, stop>>

\* lines 382-390: net_connections() is read again
InfoOpenPorts ==
    /\ info.pc = "open_ports"
    /\ info' = [info EXCEPT
                   !.pc = "conflicts",
                   !.open = OpenPortsRaw(info.ports, LiveConns(conns, gone), netDenied),
                   !.sockets2 = IF netDenied THEN <<>> ELSE LiveConns(conns, gone),
                   !.seen = @ \cup {EnvNow}]
    /\ UNCHANGED <<matchVars, regVars, called, confVars, osVars, workers, stop>>

\* lines 392-417: the conflicts of all stored projects, and the result
InfoConflicts ==
    /\ info.pc = "conflicts"
    /\ LET c == get_port_conflicts(projects, registry_cache, registry_cache_time,
                                   clock, service, NoChange)
       IN  /\ registry_cache' = c.cache
           /\ registry_cache_time' = c.time
           /\ info' = [info EXCEPT
                  !.pc = IF c.raised THEN "raised" ELSE "done",
                  !.seen = @ \cup {EnvNow},
                  !.result =
                      IF c.raised THEN [raised |-> TRUE]
                      ELSE [raised |-> FALSE,
                            status |-> StatusOf(info.matched, info.listed),
                            ports |-> info.ports,
                            open_ports |-> Sorted(Range(info.open)),
                            memory_mb |-> Round1(info.mem),
                            processes |-> info.listed,
                            pid_count |-> Len(info.matched),
                            port_conflicts |->
                                ConflictingPorts(info.ports, c.conflicts)]]
    /\ UNCHANGED <<matchVars, clock, service, calls, called, confVars, osVars,
                   workers, stop>>

\* a process exits while the call runs; its sockets go with it
ProcessExits ==
    /\ InfoRunning
    /\ Cardinality(gone) < MaxExits
    /\ \E pid \in (1..Len(procs)) \ gone : gone' = gone \cup {pid}
    /\ UNCHANGED <<matchVars, regVars, called, confVars, rss, callVars>>

\* the registry service changes its answer while the call runs
RegistryChanges ==
    /\ InfoRunning
    /\ info.changes < MaxServiceChanges
    /\ service' \in InfoServiceStates \ {service}
    /\ info' = [info EXCEPT !.changes = @ + 1]
    /\ UNCHANGED <<matchVars, registry_cache, registry_cache_time, clock, calls,
                   called, confVars, osVars, workers, stop>>

NextInfo ==
    \/ InfoBegin \/ InfoRegistryAnswers \/ InfoMatch \/ InfoMemory \/ InfoDescribe
    \/ InfoOpenPorts \/ InfoConflicts \/ ProcessExits \/ RegistryChanges

SpecInfo == InitInfo /\ [][NextInfo]_vars

(* C12: in every result of get_project_info, status is "running" if and only
   if the processes matched in that call are at least one (pid_count > 0),
   and "stopped" otherwise. *)
C12_RunningIffMatched ==
    info.pc = "done" =>
        /\ info.result.status \in {"running", "stopped"}
        /\ info.result.pid_count = Len(info.matched)
        /\ info.result.status = "running" <=> info.result.pid_count > 0

\* the one matched process exited before its memory was read: still running
C12_Witness ==
    /\ info.pc = "done"
    /\ Len(info.matched) = 1
    /\ info.result.processes = <<>>
    /\ info.result.status = "running"

\* the ports on which a socket of the table listens
ListeningPorts(cs) == {cs[k].port : k \in {m \in 1..Len(cs) : cs[m].status = "LISTEN"}}

\* a socket of the table listens on the port and its owning PID is resolvable
OwnedListener(cs, port) ==
    \E k \in 1..Len(cs) :
        /\ cs[k].status = "LISTEN" /\ cs[k].port = port
        /\ cs[k].pid # 0 /\ ProcessExists(procs, cs[k].pid)

(* C13: open_ports is the sorted, deduplicated set of the resolved ports that
   have a listening socket (in the socket table read for it; empty when that
   table cannot be read); for a project with one configured port p, no
   service names and no patterns, with a listening socket on p owned by a
   resolvable PID, the result is running with ports = [p], open_ports = [p]. *)
C13_OpenPorts ==
    info.pc = "done" =>
        LET r == info.result
        IN  /\ Range(r.open_ports) = ListeningPorts(info.sockets2) \cap Range(r.ports)
            /\ \A i, j \in 1..Len(r.open_ports) :
                  i < j => r.open_ports[i] < r.open_ports[j]
            /\ \A p \in AllPorts :
                  (/\ Queried.ports = <<p>>
                   /\ Queried.services = <<>>
                   /\ Queried.process_patterns = <<>>
                   /\ OwnedListener(info.sockets1, p)
                   /\ OwnedListener(info.sockets2, p))
                  => /\ r.status = "running"
                     /\ r.ports = <<p>>
                     /\ r.open_ports = <<p>>

\* the api scenario: port 8080, a listener on 8080 owned by pid 1
C13_Witness ==
    /\ info.pc = "done"
    /\ Queried = ApiProject
    /\ OwnedListener(info.sockets1, 8080)
    /\ OwnedListener(info.sockets2, 8080)
    /\ info.result.status = "running"
    /\ info.result.ports = <<8080>>
    /\ info.result.open_ports = <<8080>>
    /\ info.result.pid_count = 1

(* C14: for project worker (path /srv/worker, patterns ["worker.py"], no
   ports) a process with working directory /srv/worker-old whose command line
   contains "worker.py" is not matched: find_processes returns no match. *)
C14_Original ==
    (/\ called = "find_processes"
     /\ project = WorkerProject
     /\ procs[1].cwd = SrvWorkerOld
     /\ Contains(WorkerPy, Join(<<" ">>, procs[1].cmdline)))
    => found = <<>>

(* What find_processes does for project worker: a process with working
   directory /srv/worker-old is outside the project path, and it is matched
   exactly when its command line contains a configured pattern and not
   "pmctl": the pattern alone suffices. *)
WorkerOldMatchedByPattern ==
    (/\ called = "find_processes"
     /\ project = WorkerProject
     /\ procs[1].cwd = SrvWorkerOld)
    => LET cmdline == Join(<<" ">>, procs[1].cmdline)
       IN  /\ ~CwdMatch(procs[1].cwd, RStrip(project.path, "/"))
           /\ found = <<1>> <=> (/\ Contains(WorkerPy, Lower(cmdline))
                                 /\ ~Contains(SelfName, cmdline))
           /\ found # <<1>> => found = <<>>

(* C15: a process whose command line contains the tool's own invocation name
   ("pmctl") never appears in the result of find_processes, whichever rule
   would select it, the port rule included. *)
C15_SelfExclusion ==
    called = "find_processes" =>
        \A k \in 1..Len(found) :
            ~Contains(SelfName, Join(<<" ">>, procs[found[k]].cmdline))

(* C16: one get_project_info call is a single consistent read: for every
   result there is one state of the machine (process and socket tables plus
   the registry's answer), among those that existed while the call ran, from
   which all fields of the result follow, also when processes exit or the
   registry's answer changes while the call runs. *)
C16_SingleConsistentRead ==
    info.pc = "done" =>
        \E e \in info.seen :
            info.result = get_project_info(Queried, projects, procs, conns, netDenied,
                                           e.gone, rss, info.cache0, info.time0,
                                           info.t0, e.service)

(* C18: a stalled registry never stalls process matching: while a status read
   waits for its registry request to be answered or to time out, the matcher
   (find_processes) has already run, for every descriptor including one with
   service names. *)
C18_MatcherNeverWaits == info.pc = "request" => info.didMatch

(* C20: no condition is fatal: whatever the machine and the registry answer
   (inspection denied, process gone, registry unreachable, a parseable body
   whose entries lack a port), get_project_info, with the
   resolve_project_ports and get_port_conflicts calls it makes, returns a
   result and never raises to the caller. *)
C20_NeverRaises == info.pc # "raised"

-----------------------------------------------------------------------------
(* fetch_registry called by the parallel workers of /api/projects *)

MaxWorkers == 2    \* threads of the ThreadPoolExecutor inside fetch_registry

WorkerIdle == [pc |-> "idle", now |-> 0, body |-> EmptyDict, ret |-> EmptyDict]

InitFlight ==
    /\ MatchIdle
    /\ ConfIdle
    /\ OsIdle
    /\ called = "none"
    /\ calls = <<>>
    /\ clock = CACHE_TTL
    /\ service \in ServiceStates
    /\ \/ registry_cache = EmptyDict /\ registry_cache_time = 0
       \/ registry_cache = BodyWeb /\ registry_cache_time \in {0, clock}
    /\ info = <<>>
    /\ stop = <<>>
    /\ workers = [w \in 1..MaxWorkers |-> WorkerIdle]

\* lines 208-213: a worker enters fetch_registry, reads the clock and tests the
\* cache; with a fresh cache it returns it, otherwise it opens its request
WorkerCalls(w) ==
    /\ workers[w].pc = "idle"
    /\ workers' = [workers EXCEPT ![w] =
          IF CacheFresh(registry_cache, registry_cache_time, clock)
          THEN [@ EXCEPT !.pc = "done", !.now = clock, !.ret = registry_cache]
          ELSE [@ EXCEPT !.pc = "request", !.now = clock]]
    /\ called' = "fetch_registry"
    /\ UNCHANGED <<matchVars, regVars, confVars, osVars, info, stop>>

\* lines 214-215 and 218-219: the request ends; a body that parses is held for
\* the two assignments, a failure returns the cache as it is now
WorkerGetsAnswer(w) ==
    /\ workers[w].pc = "request"
    /\ workers' = [workers EXCEPT ![w] =
          IF service.kind = "ok"
          THEN [@ EXCEPT !.pc = "store_cache", !.body = service.body]
          ELSE [@ EXCEPT !.pc = "done", !.ret = registry_cache]]
    /\ UNCHANGED <<matchVars, regVars, called, confVars, osVars, info, stop>>

\* line 215: _registry_cache = json.loads(r.read())
WorkerStoresCache(w) ==
    /\ workers[w].pc = "store_cache"
    /\ registry_cache' = workers[w].body
    /\ workers' = [workers EXCEPT ![w].pc = "store_time"]
    /\ UNCHANGED <<matchVars, registry_cache_time, clock, service, calls, called,
                   confVars, osVars, info, stop>>

\* lines 216-217: _registry_cache_time = now; return _registry_cache
WorkerStoresTime(w) ==
    /\ workers[w].pc = "store_time"
    /\ registry_cache_time' = workers[w].now
    /\ workers' = [workers EXCEPT ![w].pc = "done", ![w].ret = registry_cache]
    /\ UNCHANGED <<matchVars, registry_cache, clock, service, calls, called,
                   confVars, osVars, info, stop>>

NextFlight ==
    \/ \E w \in 1..MaxWorkers :
          \/ WorkerCalls(w) \/ WorkerGetsAnswer(w)
          \/ WorkerStoresCache(w) \/ WorkerStoresTime(w)
    \/ Tick
    \/ ServiceChange

SpecFlight == InitFlight /\ [][NextFlight]_vars

\* the workers whose registry request is in flight
InFlight == {w \in DOMAIN workers : workers[w].pc = "request"}

(* C17: when several workers call fetch_registry concurrently while the cache
   is expired or empty, at most one registry network request is in flight at
   any time. *)
C17_SingleFlight == Cardinality(InFlight) <= 1

-----------------------------------------------------------------------------
(* do_stop, step by step, on processes that exit and respawn meanwhile *)

MaxSpawns == 1    \* processes that start while one do_stop call runs

\* proc.terminate() / proc.kill() for every process of the list, in order
\* (lines 521-525 and 530-534); the signal of an exited process is not delivered
\* (NoSuchProcess is caught) but the call is made
RECURSIVE SignalAll(_, _, _)
SignalAll(log, sig, pids) ==
    IF pids = <<>> THEN log
    ELSE SignalAll(Append(log, [sig |-> sig, arg |-> Head(pids)]), sig, Tail(pids))

\* time.sleep(seconds)
Sleep(log, seconds) == Append(log, [sig |-> "SLEEP", arg |-> seconds])

\* the processes do_stop kills after the grace period: those of the second
\* find_processes (line 529)
KillNobody(still, first) == <<>>

KillTargets(still, first) == still

StopBlank ==
    [pc |-> "none", pm2 |-> "none", first |-> <<>>, still |-> <<>>, log |-> <<>>,
     result |-> FALSE, spawns |-> 0]

StopDescriptors ==
    {Descriptor(PathA, <<3000>>, << <<"w">> >>, <<>>),
     Descriptor(PathA, <<>>, << <<"w">> >>, <<>>),
     Descriptor(<<>>, <<3000, 8080>>, <<>>, <<>>)}

StopConnTables ==
    {<<>>, <<Conn("LISTEN", 3000, 1)>>,
     <<Conn("LISTEN", 3000, 2), Conn("LISTEN", 8080, 1)>>}

\* nothing runs; a process inside /a; an unrelated one and one inside /a whose
\* command line holds the pattern; the tool's own dashboard
StopProcTables ==
    {<<>>, <<Proc(PathA, << <<"x">> >>)>>,
     <<Proc(PathB, << <<"x">> >>), Proc(PathA, << <<"p", "y">>, <<"W">> >>)>>,
     <<Proc(PathB, <<SelfName, <<"w", "e", "b">> >>)>>}

\* what can start during the call: a process of the project, an unrelated one
StopSpawnKinds == {Proc(PathA, << <<"x">> >>), Proc(PathB, << <<"x">> >>)}

InitStop ==
    /\ project \in StopDescriptors
    /\ procs \in StopProcTables
    /\ conns \in StopConnTables
    /\ netDenied = FALSE
    /\ found = <<>>
    /\ called = "none"
    /\ RegistryIdle
    /\ ConfIdle
    /\ gone = {}
    /\ rss = <<>>
    /\ info = <<>>
    /\ workers = <<>>
    /\ \E m \in {"none", "ok", "failed"} : stop = [StopBlank EXCEPT !.pm2 = m]

\* lines 508-519: PM2 first when the project has a pm2_name; otherwise, or when
\* PM2 fails, the first find_processes; nothing matched returns True at once
StopBegin ==
    /\ called = "none"
    /\ stop.pc = "none"
    /\ called' = "do_stop"
    /\ LET first == LiveFind(project, procs, conns, netDenied, gone)
       IN  stop' = IF stop.pm2 = "ok" \/ first = <<>>
                   THEN [stop EXCEPT !.pc = "returned", !.result = TRUE]
                   ELSE [stop EXCEPT !.pc = "terminate", !.first = first]
    /\ UNCHANGED <<matchVars, regVars, confVars, osVars, info, workers>>

\* lines 521-527: terminate every matched process, then sleep 2 seconds
StopTerminate ==
    /\ stop.pc = "terminate"
    /\ stop' = [stop EXCEPT !.pc = "grace",
                            !.log = Sleep(SignalAll(@, "TERM", stop.first), 2)]
    /\ UNCHANGED <<matchVars, regVars, called, confVars, osVars, info, workers>>

\* lines 529-536: after the grace period find_processes again, kill what it
\* returns, then sleep 1 second
StopKill ==
    /\ stop.pc = "grace"
    /\ LET still == LiveFind(project, procs, conns, netDenied, gone)
       IN  stop' = [stop EXCEPT
                       !.pc = "wait", !.still = still,
                       !.log = Sleep(SignalAll(@, "KILL",
                                               KillTargets(still, stop.first)), 1)]
    /\ UNCHANGED <<matchVars, regVars, called, confVars, osVars, info, workers>>

\* lines 538-543: is_running once more, and return
StopReturn ==
    /\ stop.pc = "wait"
    /\ stop' = [stop EXCEPT
                   !.pc = "returned",
                   !.result = (LiveFind(project, procs, conns, netDenied, gone) = <<>>)]
    /\ UNCHANGED <<matchVars, regVars, called, confVars, osVars, info, workers>>

StopRunning == stop.pc \in {"terminate", "grace", "wait"}

\* a process exits (on its own, or because of a signal it was sent)
StopProcessExits ==
    /\ StopRunning
    /\ \E pid \in (1..Len(procs)) \ gone : gone' = gone \cup {pid}
    /\ UNCHANGED <<matchVars, regVars, called, confVars, rss, callVars>>

\* a process starts inside the project (a supervisor respawns the worker)
StopProcessStarts ==
    /\ StopRunning
    /\ stop.spawns < MaxSpawns
    /\ \E p \in StopSpawnKinds : procs' = Append(procs, p)
    /\ stop' = [stop EXCEPT !.spawns = @ + 1]
    /\ UNCHANGED <<project, conns, netDenied, found, regVars, called, confVars,
                   osVars, info, workers>>

NextStop ==
    \/ StopBegin \/ StopTerminate \/ StopKill \/ StopReturn
    \/ StopProcessExits \/ StopProcessStarts

SpecStop == InitStop /\ [][NextStop]_vars

\* the call is one thread: a step that is due is taken, the sleeps end
FairSpecStop ==
    SpecStop /\ WF_vars(StopTerminate) /\ WF_vars(StopKill) /\ WF_vars(StopReturn)

\* the signal was sent to the process at position i of the log
Sent(sig, pid, i) == stop.log[i].sig = sig /\ stop.log[i].arg = pid

\* the order of the signals and sleeps sent so far
StopOrder ==
    LET log == stop.log
        N == Len(log)
        sleeps == {i \in 1..N : log[i].sig = "SLEEP"}
    IN  /\ \A i \in 1..N :
              log[i].sig = "KILL" =>
                  \E j \in 1..(i - 1) :
                      /\ log[j] = [sig |-> "SLEEP", arg |-> 2]
                      /\ \A k \in 1..Len(stop.first) :
                            \E m \in 1..(j - 1) : Sent("TERM", stop.first[k], m)
        /\ stop.pc \in {"grace", "wait", "returned"} /\ stop.first # <<>> =>
              \A k \in 1..Len(stop.first) : \E m \in 1..N : Sent("TERM", stop.first[k], m)
        /\ stop.pc \in {"wait", "returned"} /\ stop.first # <<>> =>
              /\ \A k \in 1..Len(stop.still) : \E m \in 1..N : Sent("KILL", stop.still[k], m)
              /\ \A m \in 1..N : log[m].sig = "KILL" => InList(log[m].arg, stop.still)
              /\ Cardinality(sleeps) = 2
              /\ log[N] = [sig |-> "SLEEP", arg |-> 1]

(* C19: a stop request on a project with at least one matched process, not
   handled by PM2, sends the termination signal to every matched process,
   waits a bounded grace period, sends the kill to every process still
   matched, waits a second bounded period and returns; no kill is sent before
   the termination signals and the grace period; the call always returns. *)
C19_StopOrderAndReturn ==
    /\ []StopOrder
    /\ StopRunning ~> (stop.pc = "returned")

\* process 1 ignored the termination signal, was killed after the grace
\* period, and the call has returned
C19_Witness ==
    /\ stop.pc = "returned"
    /\ stop.first = <<1>>
    /\ stop.still = <<1>>
    /\ stop.log = <<[sig |-> "TERM", arg |-> 1], [sig |-> "SLEEP", arg |-> 2],
                    [sig |-> "KILL", arg |-> 1], [sig |-> "SLEEP", arg |-> 1]>>

-----------------------------------------------------------------------------
(* C21: the path/pattern rule runs only when the descriptor has both a path
   and patterns.  With either one empty, every process find_processes returns
   was selected by the port rule: it owns a listening socket on one of the
   descriptor's ports.  A process inside the path (no patterns), or one whose
   command line holds a pattern (no path), is not returned on that ground. *)
PortSelected(pid) ==
    /\ ~netDenied
    /\ \E i \in 1..Len(conns) :
          /\ conns[i].status = "LISTEN"
          /\ InList(conns[i].port, project.ports)
          /\ conns[i].pid = pid

C21_BothPathAndPatterns ==
    (called = "find_processes"
        /\ (project.path = <<>> \/ project.process_patterns = <<>>))
    => \A i \in 1..Len(found) : PortSelected(found[i])

\* no patterns: process 1 sits in the project path and is left out, process 2
\* listens on a project port and is returned
C21_Witness ==
    /\ called = "find_processes"
    /\ project.path = PathA /\ project.process_patterns = <<>>
    /\ Len(procs) = 2 /\ procs[1].cwd = PathA
    /\ found = <<2>>

\* no path: process 1 has the pattern in its command line and is left out
C21_WitnessNoPath ==
    /\ called = "find_processes"
    /\ project.path = <<>> /\ project.process_patterns # <<>>
    /\ Len(procs) >= 1
    /\ PatternMatch(Join(<<" ">>, procs[1].cmdline), project.process_patterns)
    /\ ~InList(1, found)

-----------------------------------------------------------------------------
(* C22: a status read is read-only.  No step of get_project_info (with the
   find_processes, resolve_project_ports and get_port_conflicts calls inside
   it) changes the descriptor it was given, the stored descriptor set, the
   process table, the socket table or a memory figure; a process that exits
   during the call does so in a step of its own.  Of the state that outlives a
   step of the call, only the registry cache and its timestamp may change. *)
CallStep == info'.pc # info.pc

-----------------------------------------------------------------------------
(* C23: the memory get_project_info reports is the sum of the resident memory
   of the matched processes whose memory could still be read, and it equals
   the sum of the memory of the processes listed in the same result. *)
RECURSIVE ListedMemory(_)
ListedMemory(list) ==
    IF list = <<>> THEN 0 ELSE rss[Head(list).pid] + ListedMemory(Tail(list))

C23_MemoryOfListed ==
    info.pc = "done" =>
        info.result.memory_mb = Round1(ListedMemory(info.result.processes))

-----------------------------------------------------------------------------
(* C24: when the clock and the registry's answer stay the same during the
   call, the registry cross-check of get_port_conflicts adds no entry and
   changes none: the map the call returns is the map the local pass alone
   yields, for every stored descriptor set and every registry listing. *)
LocalPassAlone ==
    LET r == fetch_registry(registry_cache, registry_cache_time, clock, service)
        local == LocalPass(projects, 1,
                           [pm |-> <<>>, cache |-> r.cache, time |-> r.time,
                            n |-> 1, trace |-> <<>>, raised |-> r.raised],
                           clock, service, NoChange)
    IN  ConflictsOf(local.pm)

C24_CrossCheckAddsNothing ==
    (called = "get_port_conflicts" /\ change = NoChange) =>
        conflicts = LocalPassAlone

\* the registry lists 3000 for two projects, so the cross-check loop runs and
\* appends A and B to port 3000 a second time: the entry stays [A, B]
C24_Witness ==
    /\ called = "get_port_conflicts"
    /\ change = NoChange
    /\ Len(projects) = 2
    /\ Cardinality(RegistryOwners(3000)) >= 2
    /\ Owners(3000) = {"A", "B"}
    /\ Len(trace) = 4
    /\ DOMAIN conflicts = {3000}
    /\ Len(conflicts[3000]) = 2

-----------------------------------------------------------------------------
(* C25: do_stop sends the forceful kill only to processes it sent the graceful
   termination signal to earlier in the same call; a process that is first
   matched during the grace period is not killed. *)
C25_KillOnlyAfterTerminate ==
    stop # <<>> =>
        \A i \in 1..Len(stop.log) :
            stop.log[i].sig = "KILL" =>
                \E j \in 1..(i - 1) : Sent("TERM", stop.log[i].arg, j)

-----------------------------------------------------------------------------
(* C26: whatever the interleaving of concurrent fetch_registry calls, the
   stored timestamp never decreases, and the timestamp a fetch stores goes
   with the response of that same fetch: a slower fetch that started earlier
   does not overwrite what a fetch that started later has stored. *)
TimestampNeverDecreases == registry_cache_time' >= registry_cache_time

\* a worker that stores its start time finds its own response in the cache
StoresOwnPair ==
    \A w \in DOMAIN workers :
        (workers[w].pc = "store_time" /\ workers'[w].pc = "done")
        => registry_cache = workers[w].body

C26_CacheNeverCorrupted ==
    [][TimestampNeverDecreases /\ StoresOwnPair]_vars

-----------------------------------------------------------------------------
(* C27: when the descriptor has service names and the registry snapshot that
   resolve_project_ports obtains is non-empty but lists none of them, the
   resolved ports are the empty list, not the configured ports.  The matcher
   then runs without ports: whatever it matches, it matches by the
   path/pattern rule, also when a process listens on a configured port; and
   the result reports no ports and no open ports. *)
Unlisted ==
    /\ project.services # <<>>
    /\ info.registry # EmptyDict
    /\ \A i \in 1..Len(project.services) :
          project.services[i] \notin DOMAIN info.registry

ByPathRule(pid) ==
    /\ project.path # <<>> /\ project.process_patterns # <<>>
    /\ PathHit(procs[pid], RStrip(project.path, "/"), project.process_patterns)

-----------------------------------------------------------------------------
(* POST /api/projects/{name}/start and /restart, handled concurrently *)

MaxRequests == 2    \* start and restart requests for the project in one run

\* the process Popen creates (lines 478-484): /bin/bash <script>, cwd = path
ScriptProc(p) == Proc(p.path, << <<"b", "a", "s", "h">>, <<"s">> >>)

\* is_running(project), line 140
is_running(p, ps, cs, denied, dead) == LiveFind(p, ps, cs, denied, dead) # <<>>

\* lines 434-469: what do_start does before Popen; pm2 and script are the
\* descriptor's pm2_name and start_script as the call finds them
BeforePopen(pm2, script, raised) ==
    IF pm2 = "ok" THEN [pc |-> "returned", result |-> TRUE]
    ELSE IF raised THEN [pc |-> "raised", result |-> FALSE]
    ELSE IF script \in {"none", "missing"} THEN [pc |-> "returned", result |-> FALSE]
    ELSE [pc |-> "waiting", result |-> FALSE]

\* pm2_name and start_script of the descriptor: no PM2 name, PM2 working or
\* failing; a script that exists, none configured, or a missing file
StartConfigs == [pm2 : {"none", "ok", "failed"}, script : {"ok", "none", "missing"}]

RequestIdle ==
    [kind |-> "start", pc |-> "idle", pm2 |-> "none", script |-> "ok",
     arrivedRunning |-> FALSE, launched |-> FALSE, child |-> 0, first |-> <<>>,
     log |-> <<>>, result |-> FALSE]

\* a project found by path and pattern, one found by its port only
StartDescriptors ==
    {Descriptor(PathA, <<>>, << <<"w">> >>, <<>>),
     Descriptor(PathA, <<3000>>, <<>>, <<>>)}

InitStart ==
    /\ project \in StartDescriptors
    /\ procs \in {<<>>, <<Proc(PathB, << <<"x">> >>)>>}
    /\ conns = <<>>
    /\ netDenied = FALSE
    /\ found = <<>>
    /\ called = "none"
    /\ RegistryIdle
    /\ projects = <<[name |-> "A", project |-> project]>>
    /\ resolved = <<>>
    /\ conflicts = <<>>
    /\ trace = <<>>
    /\ change = NoChange
    /\ gone = {}
    /\ rss = <<>>
    /\ info = <<>>
    /\ stop = <<>>
    /\ \E k \in {"start", "restart"}, c \in StartConfigs :
          workers = [w \in 1..MaxRequests |->
                        [RequestIdle EXCEPT !.kind = IF w = 1 THEN "start" ELSE k,
                                            !.pm2 = c.pm2, !.script = c.script]]

\* lines 955-968: api_start answers "draait al" when the project runs, and
\* otherwise starts a thread that runs do_start
ApiStart(w) ==
    /\ workers[w].pc = "idle" /\ workers[w].kind = "start"
    /\ LET running == is_running(project, procs, conns, netDenied, gone)
       IN  workers' = [workers EXCEPT
                          ![w].arrivedRunning = running,
                          ![w].pc = IF running THEN "refused" ELSE "do_start"]
    /\ called' = "api_start"
    /\ UNCHANGED <<matchVars, regVars, confVars, osVars, info, stop>>

\* lines 979-992: api_restart starts a thread that runs do_stop, sleeps and
\* runs do_start; it does not look at the project's state
ApiRestart(w) ==
    /\ workers[w].pc = "idle" /\ workers[w].kind = "restart"
    /\ workers' = [workers EXCEPT
                      ![w].arrivedRunning =
                          is_running(project, procs, conns, netDenied, gone),
                      ![w].pc = "do_stop"]
    /\ called' = "api_restart"
    /\ UNCHANGED <<matchVars, regVars, confVars, osVars, info, stop>>

\* do_stop inside the restart thread, lines 508-519
RestartStopBegin(w) ==
    /\ workers[w].pc = "do_stop"
    /\ LET first == LiveFind(project, procs, conns, netDenied, gone)
       IN  workers' = [workers EXCEPT
                          ![w].first = first,
                          ![w].pc = IF workers[w].pm2 = "ok" \/ first = <<>>
                                    THEN "pause" ELSE "terminate"]
    /\ UNCHANGED <<matchVars, regVars, called, confVars, osVars, info, stop>>

\* lines 521-527
RestartTerminate(w) ==
    /\ workers[w].pc = "terminate"
    /\ workers' = [workers EXCEPT
                      ![w].pc = "grace",
                      ![w].log = Sleep(SignalAll(@, "TERM", workers[w].first), 2)]
    /\ UNCHANGED <<matchVars, regVars, called, confVars, osVars, info, stop>>

\* lines 529-543: the kill after the grace period, the last sleep and the
\* is_running of the return value, which the restart thread ignores
RestartKill(w) ==
    /\ workers[w].pc = "grace"
    /\ LET still == LiveFind(project, procs, conns, netDenied, gone)
       IN  workers' = [workers EXCEPT
                          ![w].pc = "pause",
                          ![w].log = Sleep(SignalAll(@, "KILL",
                                               KillTargets(still, workers[w].first)), 1)]
    /\ UNCHANGED <<matchVars, regVars, called, confVars, osVars, info, stop>>

\* line 988: time.sleep(2) between do_stop and do_start
RestartPause(w) ==
    /\ workers[w].pc = "pause"
    /\ workers' = [workers EXCEPT ![w].pc = "do_start",
                                  ![w].log = Sleep(@, 2)]
    /\ UNCHANGED <<matchVars, regVars, called, confVars, osVars, info, stop>>

\* do_start up to and including Popen (lines 434-484): PM2 first, then the
\* conflict warning, then the script, which is launched if it exists
DoStart(w) ==
    /\ workers[w].pc = "do_start"
    /\ \E c \in {IF workers[w].pm2 = "ok"
                 THEN [cache |-> registry_cache, time |-> registry_cache_time,
                       raised |-> FALSE]
                 ELSE get_port_conflicts(projects, registry_cache,
                                         registry_cache_time, clock, service,
                                         NoChange)} :
       \E r \in {IF workers[w].pm2 = "ok" \/ c.raised
                 THEN c
                 ELSE resolve_project_ports(project, c.cache, c.time, clock,
                                            service)} :
       \E b \in {BeforePopen(workers[w].pm2, workers[w].script,
                             c.raised \/ r.raised)} :
          /\ registry_cache' = r.cache
          /\ registry_cache_time' = r.time
          /\ IF b.pc = "waiting"
             THEN /\ procs' = Append(procs, ScriptProc(project))
                  /\ workers' = [workers EXCEPT ![w].pc = "waiting",
                                                ![w].launched = TRUE,
                                                ![w].child = Len(procs) + 1]
             ELSE /\ procs' = procs
                  /\ workers' = [workers EXCEPT ![w].pc = b.pc,
                                                ![w].result = b.result]
    /\ UNCHANGED <<project, conns, netDenied, found, clock, service, calls, called,
                   confVars, osVars, info, stop>>

\* lines 487-497: one of the twelve polls finds the project running
DoStartSeesRunning(w) ==
    /\ workers[w].pc = "waiting"
    /\ is_running(project, procs, conns, netDenied, gone)
    /\ workers' = [workers EXCEPT ![w].pc = "returned", ![w].result = TRUE]
    /\ UNCHANGED <<matchVars, regVars, called, confVars, osVars, info, stop>>

\* lines 499-504: none of the twelve polls found it running; the result is
\* whether the script is still alive (proc.poll() is None)
DoStartGivesUp(w) ==
    /\ workers[w].pc = "waiting"
    /\ workers' = [workers EXCEPT ![w].pc = "returned",
                                  ![w].result = (workers[w].child \notin gone)]
    /\ UNCHANGED <<matchVars, regVars, called, confVars, osVars, info, stop>>

\* a launched script opens the project's port, if nobody holds it
ScriptListens ==
    /\ \E w \in DOMAIN workers, i \in 1..Len(project.ports) :
          LET pid == workers[w].child
              port == project.ports[i]
          IN  /\ workers[w].launched /\ pid \notin gone
              /\ \A k \in 1..Len(conns) :
                    conns[k].port = port => conns[k].pid \in gone
              /\ conns' = Append(conns, Conn("LISTEN", port, pid))
    /\ UNCHANGED <<project, procs, netDenied, found, regVars, called, confVars,
                   osVars, callVars>>

\* a process exits, on its own or because of a signal
StartProcessExits ==
    /\ \E w \in DOMAIN workers : workers[w].pc # "idle"
    /\ Cardinality(gone) < MaxExits
    /\ \E pid \in (1..Len(procs)) \ gone : gone' = gone \cup {pid}
    /\ UNCHANGED <<matchVars, regVars, called, confVars, rss, callVars>>

NextStart ==
    \/ \E w \in 1..MaxRequests :
          \/ ApiStart(w) \/ ApiRestart(w)
          \/ RestartStopBegin(w) \/ RestartTerminate(w) \/ RestartKill(w)
          \/ RestartPause(w)
          \/ DoStart(w) \/ DoStartSeesRunning(w) \/ DoStartGivesUp(w)
    \/ ScriptListens
    \/ StartProcessExits

SpecStart == InitStart /\ [][NextStart]_vars

(* C28: whatever the interleaving of concurrent start requests (two starts,
   or a start and a restart) for one project that is not running when they
   arrive, the project's start script is launched at most once. *)
Launched == {w \in DOMAIN workers : workers[w].launched}

C28_LaunchedAtMostOnce ==
    (workers # <<>> /\ \A w \in DOMAIN workers : ~workers[w].arrivedRunning)
    => Cardinality(Launched) <= 1

-----------------------------------------------------------------------------
(* All operations together *)

Init ==
    \/ InitMatch \/ InitPath \/ InitReg \/ InitConf \/ InitInfo \/ InitFlight
    \/ InitStop \/ InitStart

Next ==
    \/ NextMatch \/ NextReg \/ NextConf \/ NextInfo \/ NextFlight \/ NextStop
    \/ NextStart

Spec == Init /\ [][Next]_vars

====
